---- MODULE Spec2Model ----
(***************************************************************************)
(* Model of meteor-app/imports/helpers/model.js: the precision-aware date  *)
(* helpers (getDateAtPrecision, offsetDateAtPrecision, the resolution      *)
(* mapping, getDateStringAtPrecision, parseDateStringWithPrecision,        *)
(* getDateRangeStringAtPrecision) and the template filler                  *)
(* (fillTemplateString, fillTemplateStringSegment).                        *)
(*                                                                         *)
(* A JavaScript string is a sequence of one-character strings.  A Date is  *)
(* a heap object whose value is the record of its UTC fields; the native   *)
(* setters are modelled by the ECMAScript MakeDay/MakeTime arithmetic of   *)
(* the proleptic Gregorian calendar.  A JavaScript value is a record       *)
(* [t |-> type tag, v |-> payload].                                        *)
(***************************************************************************)
EXTENDS Integers, Sequences, FiniteSets, TLC

VARIABLES heap, own, call, dataStore, fill

vars == <<heap, own, call, dataStore, fill>>

(***************************************************************************)
(* ECMAScript Date arithmetic (UTC, proleptic Gregorian).                  *)
(***************************************************************************)
MinutesPerHour == 60
SecondsPerMinute == 60
MsPerSecond == 1000
MsPerDay == 86400000

\* Day number (days since 1970-01-01) of the first day of month m0 (0-based,
\* 0..11) of year y, plus dt - 1: ECMAScript MakeDay(y, m0, dt) for m0 in 0..11.
DaysFromCivil(y, m0, dt) ==
    LET m   == m0 + 1
        yy  == IF m <= 2 THEN y - 1 ELSE y
        era == yy \div 400
        yoe == yy - era * 400
        mp  == IF m > 2 THEN m - 3 ELSE m + 9
        doy == (153 * mp + 2) \div 5 + dt - 1
        doe == yoe * 365 + yoe \div 4 - yoe \div 100 + doy
    IN  era * 146097 + doe - 719468

\* ECMAScript MakeDay(year, month, date): a month outside 0..11 carries into
\* the year, a date outside the month carries into the following months.
MakeDay(y, m0, dt) ==
    DaysFromCivil(y + (m0 \div 12), m0 % 12, dt)

\* ECMAScript YearFromTime / MonthFromTime / DateFromTime of a day number.
CivilFromDays(z0) ==
    LET z   == z0 + 719468
        era == z \div 146097
        doe == z - era * 146097
        yoe == (doe - doe \div 1460 + doe \div 36524 - doe \div 146096) \div 365
        doy == doe - (365 * yoe + yoe \div 4 - yoe \div 100)
        mp  == (5 * doy + 2) \div 153
        dt  == doy - (153 * mp + 2) \div 5 + 1
        m   == IF mp < 10 THEN mp + 3 ELSE mp - 9
        y   == yoe + era * 400
    IN  [year |-> IF m <= 2 THEN y + 1 ELSE y, month |-> m - 1, date |-> dt]

\* ECMAScript MakeTime(hour, min, sec, ms).
MakeTime(h, mi, s, ms) ==
    ((h * MinutesPerHour + mi) * SecondsPerMinute + s) * MsPerSecond + ms

\* ECMAScript MakeDate(day, time), read back as the UTC fields of the instant.
MakeDate(day, time) ==
    LET d2  == day + (time \div MsPerDay)
        t   == time % MsPerDay
        c   == CivilFromDays(d2)
    IN  [year |-> c.year, month |-> c.month, date |-> c.date,
         hours   |-> t \div (MinutesPerHour * SecondsPerMinute * MsPerSecond),
         minutes |-> (t \div (SecondsPerMinute * MsPerSecond)) % MinutesPerHour,
         seconds |-> (t \div MsPerSecond) % SecondsPerMinute,
         ms      |-> t % MsPerSecond]

TimeWithinDay(d) == MakeTime(d.hours, d.minutes, d.seconds, d.ms)
Day(d) == DaysFromCivil(d.year, d.month, d.date)

\* Date.prototype.setUTCFullYear(y), setUTCMonth(m), setUTCDate(dt),
\* setUTCHours(h), setUTCMinutes(mi), setUTCSeconds(s), setUTCMilliseconds(ms),
\* each called with one argument: the other fields are read from the object.
setUTCFullYear(d, y)   == MakeDate(MakeDay(y, d.month, d.date), TimeWithinDay(d))
setUTCMonth(d, m)      == MakeDate(MakeDay(d.year, m, d.date), TimeWithinDay(d))
setUTCDate(d, dt)      == MakeDate(MakeDay(d.year, d.month, dt), TimeWithinDay(d))
setUTCHours(d, h)      == MakeDate(Day(d), MakeTime(h, d.minutes, d.seconds, d.ms))
setUTCMinutes(d, mi)   == MakeDate(Day(d), MakeTime(d.hours, mi, d.seconds, d.ms))
setUTCSeconds(d, s)    == MakeDate(Day(d), MakeTime(d.hours, d.minutes, s, d.ms))
setUTCMilliseconds(d, ms) == MakeDate(Day(d), MakeTime(d.hours, d.minutes, d.seconds, ms))


(***************************************************************************)
(* JavaScript values and strings.                                          *)
(***************************************************************************)
undefined == [t |-> "undefined", v |-> 0]
null      == [t |-> "null", v |-> 0]
NaN       == [t |-> "NaN", v |-> 0]
Num(n)    == [t |-> "number", v |-> n]
Str(s)    == [t |-> "string", v |-> s]
Bool(b)   == [t |-> "boolean", v |-> b]
Ref(r)    == [t |-> "object", v |-> r]
Throw(e)  == [t |-> "throw", v |-> e]
\* an array of strings, a plain object, a function that returns ret
Arr(a)    == [t |-> "array", v |-> a]
Obj       == [t |-> "plain", v |-> 0]
Fn(ret)   == [t |-> "function", v |-> ret]

\* F(v), with v evaluated once (a `const x = v` of the source)
ByValue(v, F(_)) == CHOOSE r \in { F(x) : x \in {v} } : TRUE

\* typeof x, and isNaN(x) for a number
typeof(x) ==
    CASE x.t = "NaN" -> "number"
      [] x.t \in {"null", "array", "plain"} -> "object"
      [] OTHER -> x.t
isNaN(x)  == x.t = "NaN"

DigitChars == <<"0", "1", "2", "3", "4", "5", "6", "7", "8", "9">>
IsDigit(c) == \E i \in 1..10 : DigitChars[i] = c
DigitValue(c) == (CHOOSE i \in 1..10 : DigitChars[i] = c) - 1

\* String(n) / `${n}` of a non-negative integer, and of any integer
RECURSIVE NatToString(_)
NatToString(n) ==
    IF n < 10 THEN <<DigitChars[n + 1]>>
    ELSE NatToString(n \div 10) \o <<DigitChars[(n % 10) + 1]>>
NumberToString(n) == IF n < 0 THEN <<"-">> \o NatToString(-n) ELSE NatToString(n)

\* String.prototype.padStart(targetLength, padChar) with a one-character pad
RECURSIVE padStart(_, _, _)
padStart(s, targetLength, c) ==
    IF Len(s) >= targetLength THEN s ELSE padStart(<<c>> \o s, targetLength, c)

\* Array.prototype.join(delimiter) of an array of strings
RECURSIVE join(_, _)
join(segments, delimiter) ==
    IF segments = <<>> THEN <<>>
    ELSE IF Len(segments) = 1 THEN segments[1]
    ELSE segments[1] \o <<delimiter>> \o join(Tail(segments), delimiter)

\* Array.prototype.slice(0, end) for end >= 0
slice0(segments, end) ==
    SubSeq(segments, 1, IF end < Len(segments) THEN end ELSE Len(segments))

\* String.prototype.split(delimiter) with a one-character delimiter: always at
\* least one segment ("" splits to [""]).
RECURSIVE SplitFrom(_, _, _)
SplitFrom(s, delimiter, cur) ==
    IF s = <<>> THEN <<cur>>
    ELSE IF Head(s) = delimiter
         THEN <<cur>> \o SplitFrom(Tail(s), delimiter, <<>>)
         ELSE SplitFrom(Tail(s), delimiter, Append(cur, Head(s)))
split(s, delimiter) == SplitFrom(s, delimiter, <<>>)

\* parseInt(s, 10): leading blanks are skipped, one sign is accepted, then the
\* longest run of decimal digits is read; NaN when there is no digit.
RECURSIVE SkipBlanks(_)
SkipBlanks(s) == IF s # <<>> /\ Head(s) = " " THEN SkipBlanks(Tail(s)) ELSE s
RECURSIVE ReadDigits(_, _)
ReadDigits(s, acc) ==
    IF s # <<>> /\ IsDigit(Head(s))
    THEN ReadDigits(Tail(s), acc * 10 + DigitValue(Head(s)))
    ELSE acc
parseInt(s) ==
    LET t    == SkipBlanks(s)
        neg  == t # <<>> /\ Head(t) = "-"
        body == IF t # <<>> /\ Head(t) \in {"-", "+"} THEN Tail(t) ELSE t
    IN  IF body = <<>> \/ ~IsDigit(Head(body)) THEN NaN
        ELSE Num(IF neg THEN -ReadDigits(body, 0) ELSE ReadDigits(body, 0))

\* array[i] of a JavaScript array (0-based): undefined past the end
At(array, i) == IF i + 1 <= Len(array) THEN array[i + 1] ELSE undefined

getNumber(value, defaultValue) ==
    IF typeof(value) = "number" /\ ~isNaN(value) THEN value ELSE defaultValue

(***************************************************************************)
(* The date helpers.  A heap h is a sequence of Date values; an object is  *)
(* its index.  Each helper returns [heap |-> the heap after the call,      *)
(* ret |-> the returned JavaScript value].                                 *)
(***************************************************************************)

\* Mutant of ZeroPointHandler: the zero point of the day-of-month is 0.
ZeroPointHandler_DayZero(index, d) ==
    CASE index = 0 -> setUTCFullYear(d, 0)
      [] index = 1 -> setUTCMonth(d, 0)
      [] index = 2 -> setUTCDate(d, 0)
      [] index = 3 -> setUTCHours(d, 0)
      [] index = 4 -> setUTCMinutes(d, 0)
      [] index = 5 -> setUTCSeconds(d, 0)
      [] index = 6 -> setUTCMilliseconds(d, 0)

\* The `precisions` table of getDateAtPrecision: handler.call(newDate, zeroPoint)
ZeroPointHandler(index, d) ==
    CASE index = 0 -> setUTCFullYear(d, 0)
      [] index = 1 -> setUTCMonth(d, 0)
      [] index = 2 -> setUTCDate(d, 1)
      [] index = 3 -> setUTCHours(d, 0)
      [] index = 4 -> setUTCMinutes(d, 0)
      [] index = 5 -> setUTCSeconds(d, 0)
      [] index = 6 -> setUTCMilliseconds(d, 0)

\* precisions.reduce(..., date): acc starts as the input object itself; every
\* handler that runs copies acc into a new Date and applies the handler to it.
RECURSIVE ReducePrecisions(_, _, _, _)
ReducePrecisions(h, acc, index, precision) ==
    IF index > 6 THEN [heap |-> h, ret |-> Ref(acc)]
    ELSE IF index <= precision
         THEN ReducePrecisions(h, acc, index + 1, precision)
         ELSE ByValue(Append(h, ZeroPointHandler(index, h[acc])),
                      LAMBDA h2 : ReducePrecisions(h2, Len(h2), index + 1, precision))

getDateAtPrecision(h, date, precision) ==
    ByValue(h, LAMBDA h0 : ReducePrecisions(h0, date, 0, precision))

\* The `precisions` table of offsetDateAtPrecision: getter and setter
FieldGetter(index, d) ==
    CASE index = 0 -> d.year
      [] index = 1 -> d.month
      [] index = 2 -> d.date
      [] index = 3 -> d.hours
      [] index = 4 -> d.minutes
      [] index = 5 -> d.seconds
      [] index = 6 -> d.ms
FieldSetter(index, d, value) ==
    CASE index = 0 -> setUTCFullYear(d, value)
      [] index = 1 -> setUTCMonth(d, value)
      [] index = 2 -> setUTCDate(d, value)
      [] index = 3 -> setUTCHours(d, value)
      [] index = 4 -> setUTCMinutes(d, value)
      [] index = 5 -> setUTCSeconds(d, value)
      [] index = 6 -> setUTCMilliseconds(d, value)

\* Mutant of offsetDateAtPrecision: the result is truncated to the precision.
offsetDateAtPrecision_Truncating(h, date, precision, offset) ==
    LET value == FieldGetter(precision, h[date]) + offset
    IN  getDateAtPrecision(Append(h, FieldSetter(precision, h[date], value)),
                           Len(h) + 1, precision)

offsetDateAtPrecision(h, date, precision, offset) ==
    LET value == FieldGetter(precision, h[date]) + offset
    IN  [heap |-> Append(h, FieldSetter(precision, h[date], value)),
         ret  |-> Ref(Len(h) + 1)]

ResolutionToPrecisionMapping ==
    [name \in {"year", "month", "date", "day", "hour", "minute", "second", "millisecond"} |->
        CASE name = "year"        -> 0
          [] name = "month"       -> 1
          [] name = "date"        -> 2
          [] name = "day"         -> 2
          [] name = "hour"        -> 3
          [] name = "minute"      -> 4
          [] name = "second"      -> 5
          [] name = "millisecond" -> 5]

AllResolutionNames == DOMAIN ResolutionToPrecisionMapping

getPrecisionByResolution(resolution) ==
    IF resolution \in DOMAIN ResolutionToPrecisionMapping
    THEN Num(ResolutionToPrecisionMapping[resolution])
    ELSE undefined

\* Mutant of DateStringOf: negative years are padded like the others.
DateStringOf_NoBcYear(d, precision, delimiter) ==
    LET dateStringSegments ==
            << padStart(NumberToString(d.year), 4, "0"),
               padStart(NumberToString(d.month + 1), 2, "0"),
               padStart(NumberToString(d.date), 2, "0") >>
    IN  join(slice0(dateStringSegments, precision + 1), delimiter)

\* The string getDateStringAtPrecision builds of a Date of value d
DateStringOf(d, precision, delimiter) ==
    LET year       == d.year
        yearString == IF year < 0
                      THEN <<"-">> \o padStart(NumberToString(-year), 6, "0")
                      ELSE padStart(NumberToString(year), 4, "0")
        dateStringSegments ==
            << yearString,
               padStart(NumberToString(d.month + 1), 2, "0"),
               padStart(NumberToString(d.date), 2, "0") >>
        necessarySegments == slice0(dateStringSegments, precision + 1)
    IN  join(necessarySegments, delimiter)

\* getDateStringAtPrecision(date, precision, {delimiter}); `date` is an object
\* or undefined, and reading a property of undefined throws a TypeError.
getDateStringAtPrecision(h, date, precision, delimiter) ==
    IF date.t # "object" THEN Throw("TypeError")
    ELSE Str(DateStringOf(h[date.v], precision, delimiter))

\* parseDateStringWithPrecision(dateString, precision, {delimiter}); now is the
\* value of `new Date()`.
parseDateStringWithPrecision(h, dateString, precision, delimiter, now) ==
    LET isBcYear   == dateString # <<>> /\ Head(dateString) = "-"
        absYearStr == IF isBcYear THEN Tail(dateString) ELSE dateString
    IN
    ByValue(split(absYearStr, delimiter), LAMBDA dateStringSegments :
    ByValue([i \in 1..Len(dateStringSegments) |-> parseInt(dateStringSegments[i])],
            LAMBDA dateValueSegments :
    ByValue(getNumber(At(dateValueSegments, 0), undefined), LAMBDA absYear :
        IF typeof(absYear) = "undefined" THEN [heap |-> h, ret |-> Throw("Error")]
        ELSE
        \* Create a date object with all fields cleared out.
        ByValue(getDateAtPrecision(Append(h, now), Len(h) + 1, -1), LAMBDA cleared :
        LET date  == cleared.ret.v
            year  == IF isBcYear THEN -absYear.v ELSE absYear.v
            month == getNumber(At(dateValueSegments, 1), Num(1)).v
            day   == getNumber(At(dateValueSegments, 2), Num(1)).v
        IN
        ByValue(setUTCFullYear(cleared.heap[date], year), LAMBDA date1 :
        ByValue(setUTCMonth(date1, month - 1), LAMBDA date2 :
        ByValue(setUTCDate(date2, day), LAMBDA date3 :
            getDateAtPrecision([cleared.heap EXCEPT ![date] = date3], date,
                               precision))))))))

\* getDateRangeStringAtPrecision(precision, start, end); start and end are
\* objects or undefined.  An exception of the map callback ends the call.
getDateRangeStringAtPrecision(h, precision, start, end) ==
    IF start.t # "object" /\ end.t # "object" THEN Str(<<>>)
    ELSE LET s == getDateStringAtPrecision(h, start, precision, "-")
             e == getDateStringAtPrecision(h, end, precision, "-")
         IN  IF s.t = "throw" THEN s
             ELSE IF e.t = "throw" THEN e
             ELSE Str(s.v \o <<" ", "-", " ">> \o e.v)

(***************************************************************************)
(* The template filler.                                                    *)
(***************************************************************************)
LowerCase == {"a", "b", "c", "d", "e", "f", "g", "h", "i", "j", "k", "l", "m",
              "n", "o", "p", "q", "r", "s", "t", "u", "v", "w", "x", "y", "z"}
UpperCase == {"A", "B", "C", "D", "E", "F", "G", "H", "I", "J", "K", "L", "M",
              "N", "O", "P", "Q", "R", "S", "T", "U", "V", "W", "X", "Y", "Z"}
IsLetter(c) == c \in LowerCase \cup UpperCase

\* ToBoolean(x): `!x` is its negation
ToBoolean(x) ==
    CASE x.t \in {"undefined", "null", "NaN"} -> FALSE
      [] x.t = "boolean" -> x.v
      [] x.t = "number"  -> x.v # 0
      [] x.t = "string"  -> x.v # <<>>
      [] OTHER -> TRUE

\* String(x) of a value that is neither null nor undefined nor a string
String(x) ==
    CASE x.t = "number"  -> NumberToString(x.v)
      [] x.t = "NaN"     -> <<"N", "a", "N">>
      [] x.t = "boolean" -> IF x.v THEN <<"t", "r", "u", "e">>
                            ELSE <<"f", "a", "l", "s", "e">>
      [] x.t = "array"   -> join(x.v, ",")
      [] x.t = "plain"   -> <<"[", "o", "b", "j", "e", "c", "t", " ",
                              "O", "b", "j", "e", "c", "t", "]">>

\* encodeURIComponent(s): letters, digits and - _ . ! ~ * ' ( ) are kept, any
\* other character becomes % and the two hex digits of its code.
PercentCode ==
    [c \in {" ", "$", "%", "&", ",", "/", "[", "]", "{", "}"} |->
        CASE c = " " -> <<"%", "2", "0">>
          [] c = "$" -> <<"%", "2", "4">>
          [] c = "%" -> <<"%", "2", "5">>
          [] c = "&" -> <<"%", "2", "6">>
          [] c = "," -> <<"%", "2", "C">>
          [] c = "/" -> <<"%", "2", "F">>
          [] c = "[" -> <<"%", "5", "B">>
          [] c = "]" -> <<"%", "5", "D">>
          [] c = "{" -> <<"%", "7", "B">>
          [] c = "}" -> <<"%", "7", "D">>]
IsUnreserved(c) ==
    IsLetter(c) \/ IsDigit(c) \/ c \in {"-", "_", ".", "!", "~", "*", "'", "(", ")"}
RECURSIVE encodeURIComponent(_)
encodeURIComponent(s) ==
    IF s = <<>> THEN <<>>
    ELSE (IF IsUnreserved(Head(s)) THEN <<Head(s)>> ELSE PercentCode[Head(s)])
         \o encodeURIComponent(Tail(s))

\* placeholderPattern /\{([a-z-_][a-z0-9-_]*)\}/i: the first and the following
\* characters of the name
IsNameStart(c) == IsLetter(c) \/ c \in {"-", "_"}
IsNameChar(c)  == IsLetter(c) \/ IsDigit(c) \/ c \in {"-", "_"}

\* The index after the longest run of name characters of s that starts at j
RECURSIVE NameEnd(_, _)
NameEnd(s, j) == IF j <= Len(s) /\ IsNameChar(s[j]) THEN NameEnd(s, j + 1) ELSE j

\* The index of the closing brace of the placeholder of s that starts at i, or
\* 0 when none starts there.  The name is matched greedily, and no shorter name
\* can match, a name character not being a closing brace.
MatchAt(s, i) ==
    IF s[i] = "{" /\ i + 1 <= Len(s) /\ IsNameStart(s[i + 1])
    THEN LET e == NameEnd(s, i + 2)
         IN  IF e <= Len(s) /\ s[e] = "}" THEN e ELSE 0
    ELSE 0

\* templateString.match(placeholderGlobalFindPattern): the matched substrings,
\* left to right, each search starting after the preceding match (<<>> for null)
RECURSIVE MatchAllFrom(_, _)
MatchAllFrom(s, i) ==
    IF i > Len(s) THEN <<>>
    ELSE IF MatchAt(s, i) = 0 THEN MatchAllFrom(s, i + 1)
    ELSE <<SubSeq(s, i, MatchAt(s, i))>> \o MatchAllFrom(s, MatchAt(s, i) + 1)
matchGlobal(s) == MatchAllFrom(s, 1)

\* matchedString.match(placeholderPattern)[1]: the name between the braces of
\* the first placeholder of matchedString (here matchedString itself)
RECURSIVE FirstMatchFrom(_, _)
FirstMatchFrom(s, i) ==
    IF i > Len(s) THEN 0
    ELSE IF MatchAt(s, i) = 0 THEN FirstMatchFrom(s, i + 1) ELSE i
matchName(s) ==
    LET i == FirstMatchFrom(s, 1)
    IN  IF i = 0 THEN <<>> ELSE SubSeq(s, i + 1, MatchAt(s, i) - 1)

\* String.prototype.indexOf(search) + 1 (0 when search does not occur)
RECURSIVE IndexFrom(_, _, _)
IndexFrom(str, search, i) ==
    IF i + Len(search) - 1 > Len(str) THEN 0
    ELSE IF SubSeq(str, i, i + Len(search) - 1) = search THEN i
    ELSE IndexFrom(str, search, i + 1)

\* ECMAScript GetSubstitution for a string pattern: in the replacement text $$
\* is a dollar, $& the matched text, $` the text before the match and $' the
\* text after it; any other character, a dollar included, stands for itself.
RECURSIVE GetSubstitution(_, _, _, _)
GetSubstitution(matched, before, after, replacement) ==
    IF replacement = <<>> THEN <<>>
    ELSE IF Head(replacement) = "$" /\ Len(replacement) >= 2
              /\ replacement[2] \in {"$", "&", "`", "'"}
         THEN (CASE replacement[2] = "$" -> <<"$">>
                 [] replacement[2] = "&" -> matched
                 [] replacement[2] = "`" -> before
                 [] replacement[2] = "'" -> after)
              \o GetSubstitution(matched, before, after, Tail(Tail(replacement)))
         ELSE <<Head(replacement)>>
              \o GetSubstitution(matched, before, after, Tail(replacement))

\* String.prototype.replace(searchString, replacementString): only the first
\* occurrence of searchString is replaced.
replace(str, search, replacement) ==
    LET i == IndexFrom(str, search, 1)
    IN  IF i = 0 THEN str
        ELSE LET before == SubSeq(str, 1, i - 1)
                 after  == SubSeq(str, i + Len(search), Len(str))
             IN  before \o GetSubstitution(search, before, after, replacement) \o after

\* fillers[fillerName]: undefined when fillers has no such entry
Lookup(fillers, fillerName) ==
    IF fillerName \in DOMAIN fillers THEN fillers[fillerName] ELSE undefined

\* fillTemplateStringSegment(templateString, matchedString, fillers, dataStore):
\* the returned string and the data store after the call.  hasStore tells
\* whether a dataStore was passed; store is its content.
fillTemplateStringSegment(templateString, matchedString, fillers, hasStore, store) ==
    LET fillerName == matchName(matchedString)
        filler     == Lookup(fillers, fillerName)
    IN  IF fillerName = <<>> THEN [str |-> templateString, store |-> store]
        ELSE IF ~ToBoolean(filler)
        THEN [str |-> replace(templateString, matchedString, <<>>), store |-> store]
        ELSE
        LET replacementValue == IF typeof(filler) = "function" THEN filler.v ELSE filler
            replacementType  == typeof(replacementValue)
            isNullish        == replacementValue.t \in {"null", "undefined"}
            dataStoreValue   ==
                IF ~isNullish /\ replacementType # "string" /\ hasStore
                THEN replacementValue ELSE null
            replacementString ==
                IF isNullish THEN <<>>
                ELSE IF replacementType = "string"
                     THEN encodeURIComponent(replacementValue.v)
                ELSE IF hasStore THEN <<>>
                ELSE String(replacementValue)
        IN  [str   |-> replace(templateString, matchedString, replacementString),
             store |-> IF hasStore /\ dataStoreValue # null
                       THEN [k \in DOMAIN store \cup {fillerName} |->
                               IF k = fillerName THEN replacementValue ELSE store[k]]
                       ELSE store]

\* match.reduce((str, matchedString) => fillTemplateStringSegment(...), templateString)
RECURSIVE ReduceMatches(_, _, _, _, _)
ReduceMatches(match, str, fillers, hasStore, store) ==
    IF match = <<>> THEN [str |-> str, store |-> store]
    ELSE ByValue(fillTemplateStringSegment(str, Head(match), fillers, hasStore, store),
                 LAMBDA r : ReduceMatches(Tail(match), r.str, fillers, hasStore, r.store))

fillTemplateString(templateString, fillers, hasStore, store) ==
    IF templateString = <<>> THEN [str |-> templateString, store |-> store]
    ELSE LET match == matchGlobal(templateString)
         IN  IF match = <<>> THEN [str |-> templateString, store |-> store]
             ELSE ReduceMatches(match, templateString, fillers, hasStore, store)

(***************************************************************************)
(* The date helpers as a state machine.  heap holds the Date objects the   *)
(* caller can reach: its own date own (object 1, or 0 when it has none) and  *)
(* the object the last call returned.  call records the last call.         *)
(*                                                                         *)
(* The helpers keep no state of their own, so what a call returns depends  *)
(* on its arguments alone.  A behaviour therefore makes one call on the    *)
(* caller's date (or on a text, or on a resolution name) and then uses     *)
(* what that call returned: it parses the returned string, or it changes   *)
(* the returned Date object.                                               *)
(***************************************************************************)
MaxOffset == 13
MaxMutations == 1

Years      == {-100, -4, 0, 99, 2024, 12345}
Months     == {0, 1, 3, 9, 11}
Dates      == {1, 28, 29, 30, 31}
Times      == {<<0, 0, 0, 0>>, <<23, 59, 59, 999>>}
Delimiters == {"-", "/"}
Precisions == 0..6
Offsets    == {-MaxOffset, -1, 0, 1, MaxOffset}
\* values of `new Date()`
NowSet     == { [year |-> 2024, month |-> 1, date |-> 29, hours |-> 12, minutes |-> 34,
                 seconds |-> 56, ms |-> 789],
                [year |-> 2023, month |-> 11, date |-> 31, hours |-> 23, minutes |-> 59,
                 seconds |-> 59, ms |-> 999] }

DaysInMonth(y, m0) == MakeDay(y, m0 + 1, 1) - MakeDay(y, m0, 1)

DateInputs ==
    { [year |-> y, month |-> m, date |-> dt, hours |-> t[1], minutes |-> t[2],
       seconds |-> t[3], ms |-> t[4]] :
        y \in Years, m \in Months, dt \in Dates, t \in Times }

ValidDateInputs == { x \in DateInputs : x.date <= DaysInMonth(x.year, x.month) }

\* Texts a user may type: "y-m-dd" without padding, and malformed ones
TextYears  == {-4, 0, 99, 2023, 2024}
TextMonths == 1..12
TextDays   == 1..31
YmdText(y, m, dd) ==
    NumberToString(y) \o <<"-">> \o NumberToString(m) \o <<"-">> \o NumberToString(dd)
YmText(y, m) == NumberToString(y) \o <<"-">> \o NumberToString(m)
OtherTexts ==
    { <<>>, <<"x">>, <<"-">>, <<"2", "0", "2", "3">>, <<"2", "0", "2", "3", "-", "6">>,
      <<"2", "0", "2", "3", "-", "x", "-", "7">>,
      <<"2", "3", "4", "5", "-", "6", "-", "7", "-", "9", "9">> }

NoCall ==
    [op |-> "none", date |-> undefined, end |-> undefined, p |-> 0, k |-> 0,
     text |-> <<>>, delimiter |-> "-", name |-> "", src |-> <<>>,
     fmt |-> <<>>, before |-> <<>>, ret |-> undefined, mutated |-> 0]

\* The objects the caller still reaches when it makes the next call
Roots(h) == SubSeq(h, 1, own)

\* Drops the objects a call allocated and did not return
Collect(r) ==
    IF r.ret.t = "object" /\ r.ret.v > own
    THEN [heap |-> Roots(r.heap) \o <<r.heap[r.ret.v]>>, ret |-> Ref(own + 1)]
    ELSE [heap |-> Roots(r.heap), ret |-> r.ret]


(***************************************************************************)
(* The template filler as a state machine.  dataStore is the store the     *)
(* caller shares between its calls (its keys are placeholder names); fill  *)
(* holds the caller's template and fillers, and the last call: whether it  *)
(* passed the store, the store before the call and the returned string.    *)
(* A filler that is undefined stands for a missing entry as well: the      *)
(* source reads both as fillers[name] === undefined.                       *)
(***************************************************************************)
MaxPieces  == 2
MaxFills   == 2
MaxChanges == 1

NameA == <<"a">>
NameB == <<"b">>
Pieces == { <<"{", "a", "}">>, <<"{", "b", "}">>, <<"{", "c", "}">>, <<"/">> }

RECURSIVE TemplatesOf(_)
TemplatesOf(n) ==
    IF n = 0 THEN {<<>>}
    ELSE LET T == TemplatesOf(n - 1) IN T \cup { t \o piece : t \in T, piece \in Pieces }
Templates == TemplatesOf(MaxPieces)

FillerValuesA ==
    { undefined, null, Str(<<>>), Str(<<"a", " ", "b">>), Num(0), Num(7), Bool(FALSE),
      Arr(<< <<"{", "b", "}">> >>), Obj,
      Fn(null), Fn(Str(<<"a", " ", "b">>)), Fn(Num(0)), Fn(Bool(FALSE)), Fn(Obj) }
FillerValuesB == { undefined, Str(<<"x">>), Num(7), Fn(Num(0)) }
ChangeValues  == { undefined, null, Str(<<"x">>), Num(0), Arr(<< <<"$", "&">> >>) }

FillersOf(a, b) == [name \in {NameA, NameB} |-> IF name = NameA THEN a ELSE b]

NoFill ==
    [template |-> <<>>, fillers |-> FillersOf(undefined, undefined), hasStore |-> FALSE,
     before |-> <<>>, result |-> undefined, n |-> 0, changes |-> 0]

Init ==
    /\ \/ \E d0 \in ValidDateInputs : heap = <<d0>> /\ own = 1
       \/ heap = <<>> /\ own = 0
    /\ call = NoCall
    /\ dataStore = <<>>
    /\ fill = NoFill

\* No call has been made yet
Idle == call.op = "none"

GetDateAtPrecision(p) ==
    /\ Idle
    /\ own = 1
    /\ \E r \in { Collect(getDateAtPrecision(Roots(heap), own, p)) } :
           /\ heap' = r.heap
           /\ call' = [NoCall EXCEPT !.op = "getDateAtPrecision", !.date = Ref(own),
                                     !.p = p, !.before = Roots(heap), !.ret = r.ret]
    /\ UNCHANGED <<own, dataStore, fill>>

OffsetDateAtPrecision(p, k) ==
    /\ Idle
    /\ own = 1
    /\ \E r \in { Collect(offsetDateAtPrecision(Roots(heap), own, p, k)) } :
           /\ heap' = r.heap
           /\ call' = [NoCall EXCEPT !.op = "offsetDateAtPrecision", !.date = Ref(own),
                                     !.p = p, !.k = k, !.before = Roots(heap),
                                     !.ret = r.ret]
    /\ UNCHANGED <<own, dataStore, fill>>

GetPrecisionByResolution(name) ==
    /\ Idle
    /\ heap' = Roots(heap)
    /\ call' = [NoCall EXCEPT !.op = "getPrecisionByResolution", !.name = name,
                              !.before = Roots(heap),
                              !.ret = getPrecisionByResolution(name)]
    /\ UNCHANGED <<own, dataStore, fill>>

GetDateStringAtPrecision(p, delimiter) ==
    /\ Idle
    /\ own = 1
    /\ heap' = Roots(heap)
    /\ call' = [NoCall EXCEPT !.op = "getDateStringAtPrecision", !.date = Ref(own),
                              !.p = p, !.delimiter = delimiter, !.before = Roots(heap),
                              !.ret = getDateStringAtPrecision(Roots(heap), Ref(own), p,
                                                               delimiter)]
    /\ UNCHANGED <<own, dataStore, fill>>

\* The caller parses the string the formatter has just returned.
ParseReturnedString(p, delimiter, now) ==
    /\ call.op = "getDateStringAtPrecision"
    /\ call.ret.t = "string"
    /\ \E r \in { Collect(parseDateStringWithPrecision(Roots(heap), call.ret.v, p,
                                                     delimiter, now)) } :
           /\ heap' = r.heap
           /\ call' = [NoCall EXCEPT !.op = "parseDateStringWithPrecision",
                                     !.text = call.ret.v, !.p = p,
                                     !.delimiter = delimiter,
                                     !.fmt = <<call.p, call.delimiter>>,
                                     !.before = Roots(heap), !.ret = r.ret]
    /\ UNCHANGED <<own, dataStore, fill>>

\* The caller parses a text it was given; src names the numbers the text was
\* written from (empty for the other texts).
ParseText(text, src, p, now) ==
    /\ \E r \in { Collect(parseDateStringWithPrecision(Roots(heap), text, p, "-", now)) } :
           /\ heap' = r.heap
           /\ call' = [NoCall EXCEPT !.op = "parseDateStringWithPrecision",
                                     !.text = text, !.p = p, !.src = src,
                                     !.before = Roots(heap), !.ret = r.ret]
    /\ UNCHANGED <<own, dataStore, fill>>

ParseYmd(p, now) ==
    /\ Idle
    /\ own = 0
    /\ \E y \in TextYears, m \in TextMonths, dd \in TextDays :
          ParseText(YmdText(y, m, dd), <<y, m, dd>>, p, now)

ParseOther(p, now) ==
    /\ Idle
    /\ own = 0
    /\ \E text \in OtherTexts : ParseText(text, <<>>, p, now)

\* start and end are the caller's date or undefined.
RangeArgs == {undefined} \cup { Ref(r) : r \in 1..Len(heap) }

GetDateRangeStringAtPrecision(p, start, end) ==
    /\ Idle
    /\ call' = [NoCall EXCEPT !.op = "getDateRangeStringAtPrecision", !.date = start,
                              !.end = end, !.p = p, !.before = heap,
                              !.ret = getDateRangeStringAtPrecision(heap, p, start, end)]
    /\ UNCHANGED <<heap, own, dataStore, fill>>

\* The caller changes the Date object getDateAtPrecision returned, with one of
\* the native setters.
Mutations == { <<0, 1970>>, <<6, 500>> }

MutateReturnedDate(index, value) ==
    /\ call.op = "getDateAtPrecision"
    /\ call.ret.t = "object"
    /\ call.mutated < MaxMutations
    /\ heap' = [heap EXCEPT ![call.ret.v] = FieldSetter(index, @, value)]
    /\ call' = [call EXCEPT !.mutated = @ + 1]
    /\ UNCHANGED <<own, dataStore, fill>>

Next ==
    \/ \E p \in -1..6 : GetDateAtPrecision(p)
    \/ \E p \in Precisions, k \in Offsets : OffsetDateAtPrecision(p, k)
    \/ \E name \in AllResolutionNames \cup {"week"} : GetPrecisionByResolution(name)
    \/ \E p \in -1..3, delimiter \in Delimiters : GetDateStringAtPrecision(p, delimiter)
    \/ \E p \in -1..3, delimiter \in Delimiters, now \in NowSet :
          ParseReturnedString(p, delimiter, now)
    \/ \E p \in 0..2, now \in NowSet : ParseYmd(p, now)
    \/ \E p \in 0..2, now \in NowSet : ParseOther(p, now)
    \/ \E p \in 0..2, start \in RangeArgs, end \in RangeArgs :
          GetDateRangeStringAtPrecision(p, start, end)
    \/ \E m \in Mutations : MutateReturnedDate(m[1], m[2])

Spec == Init /\ [][Next]_vars

TemplateInit ==
    /\ heap = <<>>
    /\ own = 0
    /\ call = NoCall
    /\ dataStore = <<>>
    /\ \E template \in Templates, a \in FillerValuesA, b \in FillerValuesB :
          fill = [NoFill EXCEPT !.template = template, !.fillers = FillersOf(a, b)]

FillTemplateString(hasStore) ==
    /\ fill.n < MaxFills
    /\ \E r \in { fillTemplateString(fill.template, fill.fillers, hasStore, dataStore) } :
          /\ dataStore' = r.store
          /\ fill' = [fill EXCEPT !.hasStore = hasStore, !.before = dataStore,
                                  !.result = Str(r.str), !.n = @ + 1]
    /\ UNCHANGED <<heap, own, call>>

\* Between two calls the caller changes one entry of its fillers (and no longer
\* holds the string the last call returned).
ChangeFiller(name, value) ==
    /\ fill.n >= 1
    /\ fill.n < MaxFills
    /\ fill.changes < MaxChanges
    /\ fill.fillers[name] # value
    /\ fill' = [fill EXCEPT !.fillers[name] = value, !.changes = @ + 1,
                            !.hasStore = FALSE, !.before = dataStore,
                            !.result = undefined]
    /\ UNCHANGED <<heap, own, call, dataStore>>

TemplateNext ==
    \/ \E hasStore \in BOOLEAN : FillTemplateString(hasStore)
    \/ \E name \in {NameA, NameB}, value \in ChangeValues : ChangeFiller(name, value)

TemplateSpec == TemplateInit /\ [][TemplateNext]_vars

(***************************************************************************)
(* Properties.                                                             *)
(***************************************************************************)
\* The value of the Date a call returned, and of the caller's date before it
Returned == heap[call.ret.v]
Given    == call.before[1]
\* The value of getDateAtPrecision(x, p) for a Date of value x
ValueAtPrecision(x, p) ==
    LET r == getDateAtPrecision(<<x>>, 1, p) IN r.heap[r.ret.v]
SameValue(x, y) == x.t = y.t /\ x.v = y.v

\* C1: parsing, at precision p in {YEAR, MONTH, DAY} and with the same
\* delimiter, the string getDateStringAtPrecision(d, p) returned yields a Date
\* of the same instant as getDateAtPrecision(d, p).
C1_RoundTrip ==
    ( /\ call.op = "parseDateStringWithPrecision"
      /\ call.fmt # <<>>
      /\ call.fmt[1] \in 0..2
      /\ call.p = call.fmt[1]
      /\ call.delimiter = call.fmt[2] )
    => /\ call.ret.t = "object"
       /\ Returned = ValueAtPrecision(heap[own], call.p)

\* C1 witness: the month string of a date of a negative year, on the 31st late
\* in the day, has been parsed back at MONTH precision.
C1_Witness ==
    /\ call.op = "parseDateStringWithPrecision"
    /\ call.fmt = <<1, "-">>
    /\ call.p = 1
    /\ call.delimiter = "-"
    /\ call.text = <<"-", "0", "0", "0", "1", "0", "0", "-", "1", "2">>
    /\ heap[own].date = 31
    /\ heap[own].hours = 23
    /\ call.ret.t = "object"
    /\ Returned.year = -100 /\ Returned.month = 11 /\ Returned.date = 1

\* The zero points the claims give: month 0, day 1, the time fields 0
ZeroPointOf(index) == IF index = 2 THEN 1 ELSE 0

\* C2: for p in 0..6, getDateAtPrecision(d, p) has every field finer than p at
\* its zero point and every field at or coarser than p as in d, and truncating
\* the result again at p changes nothing.
C2_Truncation ==
    (call.op = "getDateAtPrecision" /\ call.p \in 0..6 /\ call.mutated = 0)
    => /\ call.ret.t = "object"
       /\ \A index \in 0..6 :
            FieldGetter(index, Returned) =
                IF index > call.p THEN ZeroPointOf(index) ELSE FieldGetter(index, Given)
       /\ ValueAtPrecision(Returned, call.p) = Returned

\* C2 witness: a date on the 31st at 23:59:59.999 has been truncated to MONTH.
C2_Witness ==
    /\ call.op = "getDateAtPrecision"
    /\ call.p = 1
    /\ call.mutated = 0
    /\ Given.month = 3 /\ Given.date = 30 /\ Given.ms = 999
    /\ Returned.month = 3 /\ Returned.date = 1 /\ Returned.ms = 0

\* The ordinals the claim gives to the resolution names
ClaimedOrdinal(name) ==
    CASE name = "year" -> 0 [] name = "month" -> 1 [] name \in {"date", "day"} -> 2
      [] name = "hour" -> 3 [] name = "minute" -> 4 [] name = "second" -> 5
      [] name = "millisecond" -> 6

\* C3: every accepted resolution name maps to its ordinal (year 0, month 1,
\* date/day 2, hour 3, minute 4, second 5, millisecond 6), and only the alias
\* pair date/day shares an ordinal.
C3_ResolutionMapping ==
    (call.op = "getPrecisionByResolution" /\ call.name \in AllResolutionNames)
    => /\ SameValue(call.ret, Num(ClaimedOrdinal(call.name)))
       /\ \A other \in AllResolutionNames :
            SameValue(getPrecisionByResolution(other), call.ret)
            => other = call.name \/ {other, call.name} = {"date", "day"}

\* C4 as claimed: offsetDateAtPrecision(d, p, k) leaves every field strictly
\* finer than p as it is in d.
C4_FinerFieldsKept ==
    call.op = "offsetDateAtPrecision"
    => \A index \in 0..6 :
         index > call.p => FieldGetter(index, Returned) = FieldGetter(index, Given)

\* The year and month a YEAR or MONTH offset addresses
OffsetTarget ==
    IF call.p = 0 THEN [year |-> Given.year + call.k, month |-> Given.month]
    ELSE [year  |-> Given.year + ((Given.month + call.k) \div 12),
          month |-> (Given.month + call.k) % 12]

\* C4 amended: the hour, minute, second and millisecond that are finer than p
\* are as in d; for a YEAR or MONTH offset the day-of-month (and, for YEAR, the
\* month) is as in d when the addressed month has that day, and otherwise the
\* date overflows into the following month.
C4_FinerFieldsKeptOrOverflow ==
    call.op = "offsetDateAtPrecision"
    => /\ call.ret.t = "object"
       /\ \A index \in 3..6 :
            index > call.p => FieldGetter(index, Returned) = FieldGetter(index, Given)
       /\ (call.p <= 1 /\ Given.date <= DaysInMonth(OffsetTarget.year, OffsetTarget.month))
          => /\ Returned.date = Given.date
             /\ Returned.month = OffsetTarget.month
             /\ Returned.year = OffsetTarget.year
       /\ (call.p <= 1 /\ Given.date > DaysInMonth(OffsetTarget.year, OffsetTarget.month))
          => /\ Returned.date = Given.date - DaysInMonth(OffsetTarget.year, OffsetTarget.month)
             /\ Returned.month = (OffsetTarget.month + 1) % 12

\* C4 witness: one month has been added to January 31st of a leap year, at
\* 23:59:59.999: the result is March 2nd, the time of day kept.
C4_Witness ==
    /\ call.op = "offsetDateAtPrecision"
    /\ call.p = 1 /\ call.k = 1
    /\ Given.year = 2024 /\ Given.month = 0 /\ Given.date = 31 /\ Given.hours = 23
    /\ Returned.month = 2 /\ Returned.date = 2 /\ Returned.hours = 23
    /\ Returned.ms = 999

\* The text before and after the only placeholder of a template, and its name
OnlyMatchStart(template) == FirstMatchFrom(template, 1)
OnlyMatchEnd(template)   == MatchAt(template, OnlyMatchStart(template))

\* The substitution the claim gives for a placeholder name
ClaimedValue(fillers, name) ==
    LET filler == Lookup(fillers, name)
    IN  IF filler.t = "function" THEN filler.v ELSE filler
ClaimedSubstitution(fillers, name, hasStore) ==
    LET value == ClaimedValue(fillers, name)
    IN  IF value.t \in {"undefined", "null"} THEN <<>>
        ELSE IF value.t = "string" THEN encodeURIComponent(value.v)
        ELSE IF hasStore THEN <<>>
        ELSE String(value)

\* C5: a matched placeholder is replaced by the empty string when its value is
\* missing, null or undefined, by the percent-encoded string when it is a
\* string, and otherwise by the empty string when a dataStore is passed and by
\* String(value) when none is (here: for a template of one placeholder).
C5_Substitution ==
    (fill.result.t = "string" /\ Len(matchGlobal(fill.template)) = 1)
    => fill.result.v =
          SubSeq(fill.template, 1, OnlyMatchStart(fill.template) - 1)
          \o ClaimedSubstitution(fill.fillers,
                                 matchName(fill.template), fill.hasStore)
          \o SubSeq(fill.template, OnlyMatchEnd(fill.template) + 1, Len(fill.template))

\* The names of the placeholders matched in a template
MatchedNames(template) ==
    { matchName(matchGlobal(template)[i]) : i \in 1..Len(matchGlobal(template)) }
AllNames == { NameA, NameB, <<"c">> }

\* C6: a call that is passed the dataStore writes dataStore[name] = the raw
\* value exactly for the matched placeholders whose value is neither null nor
\* undefined nor a string; every other key is as before and none is removed.
C6_DataStoreWrites ==
    fill.result.t = "string"
    => /\ DOMAIN fill.before \subseteq DOMAIN dataStore
       /\ \A name \in AllNames :
            LET value == ClaimedValue(fill.fillers, name)
                writes == /\ fill.hasStore
                          /\ name \in MatchedNames(fill.template)
                          /\ value.t \notin {"undefined", "null", "string"}
            IN  IF writes
                THEN name \in DOMAIN dataStore /\ SameValue(dataStore[name], value)
                ELSE IF name \in DOMAIN fill.before
                     THEN /\ name \in DOMAIN dataStore
                          /\ SameValue(dataStore[name], fill.before[name])
                     ELSE name \notin DOMAIN dataStore

\* The numbers a "y-m-dd" text was written from
SrcYear  == call.src[1]
SrcMonth == call.src[2]
\* The Date value of midnight of day dt of month m (1-based) of year y
Midnight(y, m, dt) ==
    [year |-> y, month |-> m - 1, date |-> dt, hours |-> 0, minutes |-> 0,
     seconds |-> 0, ms |-> 0]
\* The value parseDateStringWithPrecision(text, p) returns
ParsedValue(text, p) ==
    LET r == parseDateStringWithPrecision(<<>>, text, p, "-", CHOOSE now \in NowSet : TRUE)
    IN  r.heap[r.ret.v]

\* C7: parsing "y-m-dd" (m in 1..12, dd in 1..31) at MONTH precision yields the
\* first day of month m of year y, as parsing "y-m" does, and at YEAR precision
\* January 1st of year y, as parsing "y" does.
C7_ParseDiscardsFiner ==
    (call.op = "parseDateStringWithPrecision" /\ call.src # <<>> /\ call.p \in {0, 1})
    => /\ call.ret.t = "object"
       /\ call.p = 1 => /\ Returned = Midnight(SrcYear, SrcMonth, 1)
                        /\ Returned = ParsedValue(YmText(SrcYear, SrcMonth), 1)
       /\ call.p = 0 => /\ Returned = Midnight(SrcYear, 1, 1)
                        /\ Returned = ParsedValue(NumberToString(SrcYear), 0)

\* C8: getDateAtPrecision(d, p), p in -1..6, leaves d as it was and returns an
\* object other than d, so that changing the returned object leaves d as it was.
C8_NewObject ==
    call.op = "getDateAtPrecision"
    => /\ call.ret.t = "object"
       /\ call.ret.v # call.date.v
       /\ heap[call.date.v] = Given

\* C9: getDateRangeStringAtPrecision never fails: it returns "" when start and
\* end are both absent, and otherwise a string that joins the two formatted
\* endpoints with " - ".
C9_RangeStringTotal ==
    call.op = "getDateRangeStringAtPrecision"
    => /\ call.ret.t = "string"
       /\ (call.date.t # "object" /\ call.end.t # "object") => call.ret.v = <<>>
       /\ (call.date.t = "object" \/ call.end.t = "object")
          => \E i \in 1..Len(call.ret.v) - 2 :
                SubSeq(call.ret.v, i, i + 2) = <<" ", "-", " ">>
       /\ (call.date.t = "object" /\ call.end.t = "object")
          => call.ret.v = DateStringOf(heap[call.date.v], call.p, "-")
                          \o <<" ", "-", " ">>
                          \o DateStringOf(heap[call.end.v], call.p, "-")

\* What fillTemplateString substitutes for one placeholder on its own
OwnSubstitution(placeholder, fillers, hasStore) ==
    fillTemplateStringSegment(placeholder, placeholder, fillers, hasStore, <<>>).str

\* The template with every placeholder replaced, where it stands, by its own
\* substitution
RECURSIVE PositionWise(_, _, _, _)
PositionWise(template, i, fillers, hasStore) ==
    IF i > Len(template) THEN <<>>
    ELSE IF MatchAt(template, i) = 0
         THEN <<template[i]>> \o PositionWise(template, i + 1, fillers, hasStore)
         ELSE OwnSubstitution(SubSeq(template, i, MatchAt(template, i)), fillers, hasStore)
              \o PositionWise(template, MatchAt(template, i) + 1, fillers, hasStore)

\* C10: the string fillTemplateString returns is the template with each
\* placeholder occurrence replaced at its own position by its own substitution.
C10_PositionWise ==
    fill.result.t = "string"
    => fill.result.v = PositionWise(fill.template, 1, fill.fillers, fill.hasStore)

====
